---- MODULE Spec2Model ----
(***************************************************************************)
(* A model of OpenAIChatbot (src/sse_chatbot.py): the conversation history *)
(* kept by chat / clear_conversation / set_system_message, and the         *)
(* decoding of the server-sent-event stream inside chat.                   *)
(*                                                                         *)
(* Text is modelled by TLA+ strings, so that prefix tests, slices and      *)
(* concatenations are computed as the code computes them.                  *)
(***************************************************************************)
EXTENDS Integers, Sequences, FiniteSets, TLC

(***************************************************************************)
(* Parsed JSON values, as json.loads builds them: None, bool, int, float,  *)
(* str, list and dict.  One record shape for all of them; a dict keeps its *)
(* members in l as records [k, v], in the order they were read.            *)
(***************************************************************************)
PyNone == [t |-> "NoneType", s |-> "", n |-> 0, b |-> FALSE, l |-> <<>>]

PyBool(x) == [t |-> "bool", s |-> "", n |-> 0, b |-> x, l |-> <<>>]

PyInt(x) == [t |-> "int", s |-> "", n |-> x, b |-> FALSE, l |-> <<>>]

\* float: only the constants NaN, Infinity, -Infinity are produced; s names it
PyFloat(x) == [t |-> "float", s |-> x, n |-> 0, b |-> FALSE, l |-> <<>>]

PyStr(x) == [t |-> "str", s |-> x, n |-> 0, b |-> FALSE, l |-> <<>>]

PyList(x) == [t |-> "list", s |-> "", n |-> 0, b |-> FALSE, l |-> x]

PyDict(x) == [t |-> "dict", s |-> "", n |-> 0, b |-> FALSE, l |-> x]

(***************************************************************************)
(* Characters of a string.                                                 *)
(***************************************************************************)
Ch(s, i) == IF 1 <= i /\ i <= Len(s) THEN SubSeq(s, i, i) ELSE ""

\* s[i:i+len(p)] == p
StartsAt(s, i, p) == i + Len(p) - 1 <= Len(s) /\ SubSeq(s, i, i + Len(p) - 1) = p

\* str.startswith
StartsWith(s, p) == StartsAt(s, 1, p)

\* p in s, for strings
IsSubstring(p, s) == \E i \in 1..(Len(s) + 1) : StartsAt(s, i, p)

Digits == <<"0", "1", "2", "3", "4", "5", "6", "7", "8", "9">>

IsDigit(c) == \E d \in 1..10 : Digits[d] = c

DigitVal(c) == (CHOOSE d \in 1..10 : Digits[d] = c) - 1

RECURSIVE IntToStr(_)
IntToStr(n) ==
    IF n < 0 THEN "-" \o IntToStr(0 - n)
    ELSE IF n < 10 THEN Digits[n + 1]
    ELSE IntToStr(n \div 10) \o Digits[(n % 10) + 1]

(***************************************************************************)
(* json.loads, for the grammar the streams of this model use: objects,     *)
(* arrays, strings without escape sequences, integers, true, false, null   *)
(* and the constants NaN, Infinity and -Infinity that Python's decoder     *)
(* accepts.  A result is [ok, v, i]: ok = FALSE is JSONDecodeError, else v *)
(* is the value and i the index after it.                                  *)
(***************************************************************************)
JsonFail == [ok |-> FALSE, v |-> PyNone, i |-> 0]

JsonOk(v, i) == [ok |-> TRUE, v |-> v, i |-> i]

IsWs(c) == c = " " \/ c = "\t"

RECURSIVE SkipWs(_, _)
SkipWs(s, i) == IF IsWs(Ch(s, i)) THEN SkipWs(s, i + 1) ELSE i

\* the index of the closing quote of a string whose first character is at i, or 0
RECURSIVE ScanString(_, _)
ScanString(s, i) ==
    IF i > Len(s) THEN 0
    ELSE IF Ch(s, i) = "\"" THEN i
    ELSE IF Ch(s, i) = "\\" THEN 0
    ELSE ScanString(s, i + 1)

\* the index after the last digit of the run of digits starting at i
RECURSIVE ScanDigits(_, _)
ScanDigits(s, i) == IF IsDigit(Ch(s, i)) THEN ScanDigits(s, i + 1) ELSE i

RECURSIVE DigitsVal(_, _, _, _)
DigitsVal(s, i, j, acc) ==
    IF i >= j THEN acc ELSE DigitsVal(s, i + 1, j, 10 * acc + DigitVal(Ch(s, i)))

\* an integer at i: "0", or a non-zero digit followed by digits
ParseNat(s, i) ==
    IF ~IsDigit(Ch(s, i)) THEN JsonFail
    ELSE IF Ch(s, i) = "0" THEN JsonOk(PyInt(0), i + 1)
    ELSE LET j == ScanDigits(s, i) IN JsonOk(PyInt(DigitsVal(s, i, j, 0)), j)

RECURSIVE ParseValue(_, _), ParseElements(_, _, _), ParseMembers(_, _, _)

ParseValue(s, i) ==
    LET c == Ch(s, i) IN
    IF c = "\"" THEN
        LET j == ScanString(s, i + 1) IN
        IF j = 0 THEN JsonFail ELSE JsonOk(PyStr(SubSeq(s, i + 1, j - 1)), j + 1)
    ELSE IF c = "{" THEN
        LET j == SkipWs(s, i + 1) IN
        IF Ch(s, j) = "}" THEN JsonOk(PyDict(<<>>), j + 1)
        ELSE ParseMembers(s, j, <<>>)
    ELSE IF c = "[" THEN
        LET j == SkipWs(s, i + 1) IN
        IF Ch(s, j) = "]" THEN JsonOk(PyList(<<>>), j + 1)
        ELSE ParseElements(s, j, <<>>)
    ELSE IF StartsAt(s, i, "null") THEN JsonOk(PyNone, i + 4)
    ELSE IF StartsAt(s, i, "true") THEN JsonOk(PyBool(TRUE), i + 4)
    ELSE IF StartsAt(s, i, "false") THEN JsonOk(PyBool(FALSE), i + 5)
    ELSE IF StartsAt(s, i, "NaN") THEN JsonOk(PyFloat("nan"), i + 3)
    ELSE IF StartsAt(s, i, "Infinity") THEN JsonOk(PyFloat("inf"), i + 8)
    ELSE IF StartsAt(s, i, "-Infinity") THEN JsonOk(PyFloat("-inf"), i + 9)
    ELSE IF c = "-" THEN
        LET r == ParseNat(s, i + 1) IN
        IF r.ok THEN JsonOk(PyInt(0 - r.v.n), r.i) ELSE JsonFail
    ELSE ParseNat(s, i)

\* the elements of an array, the first of them at i
ParseElements(s, i, acc) ==
    LET r == ParseValue(s, i) IN
    IF ~r.ok THEN JsonFail
    ELSE LET j == SkipWs(s, r.i)
             got == Append(acc, r.v)
         IN  IF Ch(s, j) = "]" THEN JsonOk(PyList(got), j + 1)
             ELSE IF Ch(s, j) = "," THEN ParseElements(s, SkipWs(s, j + 1), got)
             ELSE JsonFail

\* the members of an object, the first key's opening quote at i
ParseMembers(s, i, acc) ==
    IF Ch(s, i) # "\"" THEN JsonFail
    ELSE LET q == ScanString(s, i + 1) IN
         IF q = 0 THEN JsonFail
         ELSE LET key == SubSeq(s, i + 1, q - 1)
                  c == SkipWs(s, q + 1)
              IN  IF Ch(s, c) # ":" THEN JsonFail
                  ELSE LET r == ParseValue(s, SkipWs(s, c + 1)) IN
                       IF ~r.ok THEN JsonFail
                       ELSE LET j == SkipWs(s, r.i)
                                got == Append(acc, [k |-> key, v |-> r.v])
                            IN  IF Ch(s, j) = "}" THEN JsonOk(PyDict(got), j + 1)
                                ELSE IF Ch(s, j) = ","
                                     THEN ParseMembers(s, SkipWs(s, j + 1), got)
                                ELSE JsonFail

\* json.loads(s): leading whitespace, one value, trailing whitespace, end
JsonLoads(s) ==
    LET r == ParseValue(s, SkipWs(s, 1)) IN
    IF r.ok /\ SkipWs(s, r.i) = Len(s) + 1 THEN r ELSE JsonFail

(***************************************************************************)
(* Python's operations on a parsed value, as chat applies them.  An        *)
(* operation either gives a value or raises; a raised exception is the     *)
(* record [type, msg], msg being str(e) (CPython's wording).               *)
(***************************************************************************)
NoExc == [type |-> "", msg |-> ""]

Exc(type, msg) == [type |-> type, msg |-> msg]

IsContainer(v) == v.t = "dict" \/ v.t = "list" \/ v.t = "str"

HasKey(d, key) == \E j \in 1..Len(d.l) : d.l[j].k = key

\* d[key] of a dict that has the key: the member read last wins
DictGet(d, key) ==
    d.l[CHOOSE j \in 1..Len(d.l) :
            /\ d.l[j].k = key
            /\ \A m \in (j + 1)..Len(d.l) : d.l[m].k # key].v

\* key in v, where v is iterable (a dict, a list or a str)
PyIn(key, v) ==
    IF v.t = "dict" THEN HasKey(v, key)
    ELSE IF v.t = "list" THEN \E j \in 1..Len(v.l) : v.l[j].t = "str" /\ v.l[j].s = key
    ELSE IsSubstring(key, v.s)

InTypeError(v) == Exc("TypeError", "argument of type '" \o v.t \o "' is not iterable")

\* the exception of v[key], key a str, for a v that is not a dict
SubscriptTypeError(v) ==
    IF v.t = "list"
    THEN Exc("TypeError", "list indices must be integers or slices, not str")
    ELSE Exc("TypeError", "string indices must be integers, not 'str'")

\* len(v) of a container
PyLen(v) == IF v.t = "str" THEN Len(v.s) ELSE Len(v.l)

LenTypeError(v) == Exc("TypeError", "object of type '" \o v.t \o "' has no len()")

GetAttributeError(v) ==
    Exc("AttributeError", "'" \o v.t \o "' object has no attribute 'get'")

ConcatTypeError(v) ==
    Exc("TypeError", "can only concatenate str (not \"" \o v.t \o "\") to str")

\* the distinct keys of a dict's members, each at its first position
RECURSIVE DictKeys(_, _)
DictKeys(l, j) ==
    IF j > Len(l) THEN <<>>
    ELSE IF \E m \in 1..(j - 1) : l[m].k = l[j].k THEN DictKeys(l, j + 1)
    ELSE <<l[j].k>> \o DictKeys(l, j + 1)

StrRepr(s) == IF IsSubstring("'", s) THEN "\"" \o s \o "\"" ELSE "'" \o s \o "'"

\* repr(v)
RECURSIVE PyRepr(_), ReprElements(_, _), ReprItems(_, _, _)
PyRepr(v) ==
    IF v.t = "NoneType" THEN "None"
    ELSE IF v.t = "bool" THEN (IF v.b THEN "True" ELSE "False")
    ELSE IF v.t = "int" THEN IntToStr(v.n)
    ELSE IF v.t = "float" THEN v.s
    ELSE IF v.t = "str" THEN StrRepr(v.s)
    ELSE IF v.t = "list" THEN "[" \o ReprElements(v.l, 1) \o "]"
    ELSE "{" \o ReprItems(v, DictKeys(v.l, 1), 1) \o "}"

ReprElements(l, j) ==
    IF j > Len(l) THEN ""
    ELSE PyRepr(l[j]) \o (IF j < Len(l) THEN ", " ELSE "") \o ReprElements(l, j + 1)

ReprItems(d, keys, j) ==
    IF j > Len(keys) THEN ""
    ELSE StrRepr(keys[j]) \o ": " \o PyRepr(DictGet(d, keys[j]))
         \o (IF j < Len(keys) THEN ", " ELSE "") \o ReprItems(d, keys, j + 1)

\* str(v), what print(v) writes
PyToStr(v) == IF v.t = "str" THEN v.s ELSE PyRepr(v)

(***************************************************************************)
(* The decoding of one line of the stream: the body of the for loop of     *)
(* chat.  The outcome is                                                   *)
(*   skip     nothing happens, the loop goes on with the next line;        *)
(*   break    the loop is left;                                            *)
(*   content  print(content) writes out[1], add is appended to             *)
(*            assistant_message;                                           *)
(*   raise    exc leaves the loop, after print wrote what out holds.       *)
(* A line of the body is the record [bytes, utf8]: its bytes as text, and  *)
(* whether they are well-formed UTF-8.                                     *)
(***************************************************************************)
Skip == [kind |-> "skip", out |-> <<>>, add |-> "", exc |-> NoExc]

\* continue in the place of break
ContinueOnDone == Skip

\* lines 91-92
Break == [kind |-> "break", out |-> <<>>, add |-> "", exc |-> NoExc]

\* the fragment printed and not added to assistant_message
ContentPrintedOnly(c) == [kind |-> "content", out |-> <<c>>, add |-> "", exc |-> NoExc]

\* lines 104-106
Content(c) == [kind |-> "content", out |-> <<c>>, add |-> c, exc |-> NoExc]

Raise(e, out) == [kind |-> "raise", out |-> out, add |-> "", exc |-> e]

UnicodeDecodeError ==
    Exc("UnicodeDecodeError",
        "'utf-8' codec can't decode byte 0xff in position 0: invalid start byte")

\* lines 101-106: the shape of a parsed event
InspectEvent(event_data) ==
    IF ~IsContainer(event_data) THEN Raise(InTypeError(event_data), <<>>)
    ELSE IF ~PyIn("choices", event_data) THEN Skip
    ELSE IF event_data.t # "dict" THEN Raise(SubscriptTypeError(event_data), <<>>)
    ELSE LET choices == DictGet(event_data, "choices") IN
    IF ~IsContainer(choices) THEN Raise(LenTypeError(choices), <<>>)
    ELSE IF ~(PyLen(choices) > 0) THEN Skip
    ELSE IF choices.t = "dict" THEN Raise(Exc("KeyError", "0"), <<>>)
    ELSE LET first == IF choices.t = "list" THEN choices.l[1]
                      ELSE PyStr(Ch(choices.s, 1)) IN
    IF first.t # "dict" THEN Raise(GetAttributeError(first), <<>>)
    ELSE LET delta == IF HasKey(first, "delta") THEN DictGet(first, "delta")
                      ELSE PyDict(<<>>) IN
    IF ~IsContainer(delta) THEN Raise(InTypeError(delta), <<>>)
    ELSE IF ~PyIn("content", delta) THEN Skip
    ELSE IF delta.t # "dict" THEN Raise(SubscriptTypeError(delta), <<>>)
    ELSE LET content == DictGet(delta, "content") IN
    IF content.t = "str" THEN Content(content.s)
    ELSE Raise(ConcatTypeError(content), <<PyToStr(content)>>)

\* the prefix tested and cut without its space: startswith('data:'), line[5:]
DecodeLineShortPrefix(line) ==
    IF line.bytes = "" THEN Skip
    ELSE IF ~line.utf8 THEN Raise(UnicodeDecodeError, <<>>)
    ELSE LET text == line.bytes IN
    IF ~StartsWith(text, "data:") THEN Skip
    ELSE LET data == SubSeq(text, 6, Len(text)) IN
    IF data = "[DONE]" THEN Break
    ELSE LET parsed == JsonLoads(data) IN
    IF ~parsed.ok THEN Skip
    ELSE InspectEvent(parsed.v)

\* lines 83-109
DecodeLine(line) ==
    IF line.bytes = "" THEN Skip
    ELSE IF ~line.utf8 THEN Raise(UnicodeDecodeError, <<>>)
    ELSE LET text == line.bytes IN
    IF ~StartsWith(text, "data: ") THEN Skip
    ELSE LET data == SubSeq(text, 7, Len(text)) IN
    IF data = "[DONE]" THEN Break
    ELSE LET parsed == JsonLoads(data) IN
    IF ~parsed.ok THEN Skip
    ELSE InspectEvent(parsed.v)

(***************************************************************************)
(* Bounds and inputs of the model.                                         *)
(***************************************************************************)
\* chat is called while history holds fewer than MaxTurns completed turns
MaxTurns == 2

\* a response body of StreamSpec has at most MaxLines lines
MaxLines == 3

UserInputs == {"hello", "bye"}

SystemPrompts == {"You are a helpful assistant.", "Be brief."}

Text(txt) == [bytes |-> txt, utf8 |-> TRUE]

ContentLine(c) == Text("data: {\"choices\":[{\"delta\":{\"content\":\"" \o c \o "\"}}]}")

DoneLine == Text("data: [DONE]")

BlankLine == Text("")

CommentLine == Text(": keep-alive")

MalformedLine == Text("data: {not valid json}")

RoleLine == Text("data: {\"choices\":[{\"delta\":{\"role\":\"assistant\"}}]}")

EmptyChoicesLine == Text("data: {\"choices\":[]}")

FinishLine == Text("data: {\"choices\":[{\"delta\":{},\"finish_reason\":\"stop\"}]}")

NullContentLine == Text("data: {\"choices\":[{\"delta\":{\"content\":null}}]}")

NullLine == Text("data: null")

NaNLine == Text("data: NaN")

\* the single byte 0xff
NotUtf8Line == [bytes |-> "?", utf8 |-> FALSE]

\* the lines a body is made of
Lines ==
    { BlankLine, CommentLine, ContentLine("A"), ContentLine("B"), DoneLine,
      MalformedLine, RoleLine, EmptyChoicesLine, FinishLine, NullContentLine,
      NullLine, NaNLine, NotUtf8Line }

\* StreamSpec: every body of at most MaxLines lines
Bodies == UNION { [1..n -> Lines] : n \in 0..MaxLines }

\* Spec: a few bodies, among them the end-to-end scenario of the spec
SessionBodies ==
    { <<>>,
      <<ContentLine("A"), BlankLine, ContentLine("B"), DoneLine>>,
      <<RoleLine, ContentLine("B"), DoneLine, ContentLine("A")>>,
      <<MalformedLine, ContentLine("A")>>,
      <<ContentLine("A"), NullContentLine, ContentLine("B")>>,
      <<NotUtf8Line>> }

\* the status codes of the responses
Statuses == {200, 304, 401, 500}

(***************************************************************************)
(* The state.  messages and system_message are the fields of the chatbot;  *)
(* user_input, response, pos (the lines iter_lines has yielded) and        *)
(* assistant_message are the locals of the chat call in progress; pc is    *)
(* the place of the control:                                               *)
(*   idle    no call in progress (main waits for input),                   *)
(*   post    chat has built its request, requests.post has not returned,   *)
(*   stream  chat is in the for loop over response.iter_lines(),           *)
(*   exited  main has left its loop.                                       *)
(* Recorded for the properties: before is messages as the call in progress *)
(* (or the last call) found it, sent the messages of its request, printed  *)
(* what print(content) wrote during it, returned how it ended, and conn    *)
(* whether the connection of its response is open.                         *)
(*                                                                         *)
(* chat never closes its response.  The connection is released when the    *)
(* body is read to its end or the read fails (urllib3 does it); on every   *)
(* other way out of chat the response is left to the interpreter, which    *)
(* may finalize it when the frame of chat is gone (reference counting      *)
(* does) or not (the language promises no finalization).                   *)
(***************************************************************************)
VARIABLES messages, system_message, pc, user_input, response, pos,
          assistant_message, before, sent, printed, returned, conn

vars == <<messages, system_message, pc, user_input, response, pos,
          assistant_message, before, sent, printed, returned, conn>>

Message(role, content) == [role |-> role, content |-> content]

NoResponse == [status_code |-> 0, body |-> <<>>]

NotReturned == [how |-> "none", value |-> ""]

\* list.pop(0) in the place of list.pop()
PopFirst(list) == Tail(list)

\* list.pop()
Pop(list) == SubSeq(list, 1, Len(list) - 1)

\* lines 18-27
Init ==
    /\ messages = <<>>
    /\ system_message = "You are a helpful assistant."
    /\ pc = "idle"
    /\ user_input = ""
    /\ response = NoResponse
    /\ pos = 0
    /\ assistant_message = ""
    /\ before = <<>>
    /\ sent = <<>>
    /\ printed = <<>>
    /\ returned = NotReturned
    /\ conn = "none"

call_vars == <<user_input, response, pos, assistant_message, before, sent,
               printed, returned, conn>>

\* a set_system_message that starts a new conversation
set_system_message_clears(message) ==
    /\ pc = "idle"
    /\ system_message' = message
    /\ messages' = <<>>
    /\ UNCHANGED <<pc, call_vars>>

\* lines 29-30
set_system_message(message) ==
    /\ pc = "idle"
    /\ system_message' = message
    /\ UNCHANGED <<messages, pc, call_vars>>

\* a clear_conversation that also puts the first system prompt back
clear_conversation_resets_prompt ==
    /\ pc = "idle"
    /\ messages' = <<>>
    /\ system_message' = "You are a helpful assistant."
    /\ UNCHANGED <<pc, call_vars>>

\* lines 32-34
clear_conversation ==
    /\ pc = "idle"
    /\ messages' = <<>>
    /\ UNCHANGED <<system_message, pc, call_vars>>

\* the system prompt stored as the first entry of an empty history
AppendUserSeeded(history, input) ==
    IF history = <<>>
    THEN <<Message("system", system_message), Message("user", input)>>
    ELSE Append(history, Message("user", input))

\* list.insert(0, ...) in the place of list.append
PrependUser(history, input) == <<Message("user", input)>> \o history

\* line 38: self.messages.append({"role": "user", "content": user_input})
AppendUser(history, input) == Append(history, Message("user", input))

\* the system entry after the history instead of before it
full_messages_system_last(history) == history \o <<Message("system", system_message)>>

\* line 51: [{"role": "system", "content": self.system_message}] + self.messages
full_messages(history) == <<Message("system", system_message)>> \o history

\* lines 36-58: the user message is appended and the request is built
chat(input) ==
    /\ pc = "idle"
    /\ Len(messages) < 2 * MaxTurns
    /\ messages' = AppendUser(messages, input)
    /\ user_input' = input
    /\ before' = messages
    /\ sent' = full_messages(messages')
    /\ response' = NoResponse
    /\ pos' = 0
    /\ assistant_message' = ""
    /\ printed' = <<>>
    /\ returned' = NotReturned
    /\ conn' = "none"
    /\ pc' = "post"
    /\ UNCHANGED system_message

\* the connection of a response that chat leaves behind without closing it
LeftBehind == {"open", "released"}

\* an except clause without its self.messages.pop()
ExceptKeepsTurn(clause, error_msg) ==
    /\ messages' = messages
    /\ returned' = [how |-> clause, value |-> error_msg]
    /\ pc' = "idle"

\* lines 118-132: an except clause: the message is popped, error_msg returned
\* self.messages.pop() on an empty list raises IndexError inside the clause: no
\* clause of chat catches it, main prints it and goes on with its loop
Except(clause, error_msg) ==
    IF messages = <<>>
    THEN /\ messages' = messages
         /\ returned' = [how |-> "IndexError", value |-> "pop from empty list"]
         /\ pc' = "idle"
    ELSE /\ messages' = Pop(messages)
         /\ returned' = [how |-> clause, value |-> error_msg]
         /\ pc' = "idle"

\* the except clause that catches e, and the error_msg it builds
Catch(e) ==
    IF e.type = "Timeout" THEN Except("Timeout", "Request timed out")
    ELSE IF e.type \in {"ConnectionError", "HTTPError", "ChunkedEncodingError"}
    THEN Except("RequestException", "Network error: " \o e.msg)
    ELSE Except("Exception", "Error: " \o e.msg)

\* response.raise_for_status(): the HTTPError of a 4xx or 5xx status
HTTPError(status_code) ==
    Exc("HTTPError",
        IntToStr(status_code)
        \o (IF status_code < 500 THEN " Client Error" ELSE " Server Error"))

\* what requests.post raises when it gives no response
PostErrors ==
    { Exc("Timeout", "timed out"), Exc("ConnectionError", "connection refused") }

\* lines 62-79: requests.post fails
PostFails ==
    /\ pc = "post"
    /\ \E e \in PostErrors : Catch(e)
    /\ UNCHANGED <<system_message, user_input, response, pos, assistant_message,
                   before, sent, printed, conn>>

\* lines 62-79: requests.post gives a response; raise_for_status
PostResponds(bodies) ==
    /\ pc = "post"
    /\ \E status_code \in Statuses, body \in bodies :
          /\ response' = [status_code |-> status_code, body |-> body]
          /\ IF 400 <= status_code /\ status_code < 600
             THEN /\ Catch(HTTPError(status_code))
                  /\ conn' \in LeftBehind
             ELSE /\ pc' = "stream"
                  /\ conn' = "open"
                  /\ UNCHANGED <<messages, returned>>
    /\ UNCHANGED <<system_message, user_input, pos, assistant_message, before,
                   sent, printed>>

\* lines 82-109: iter_lines yields the next line of the body
NextLine ==
    /\ pc = "stream"
    /\ pos < Len(response.body)
    /\ pos' = pos + 1
    /\ LET d == DecodeLine(response.body[pos + 1]) IN
          /\ printed' = printed \o d.out
          /\ assistant_message' = assistant_message \o d.add
          /\ IF d.kind = "raise"
             THEN Catch(d.exc) /\ conn' \in LeftBehind
             ELSE IF d.kind = "break"
             THEN \* lines 111-116, the body not read to its end
                  /\ messages' = Append(messages, Message("assistant", assistant_message))
                  /\ returned' = [how |-> "return", value |-> assistant_message]
                  /\ pc' = "idle"
                  /\ conn' \in LeftBehind
             ELSE UNCHANGED <<messages, returned, pc, conn>>
    /\ UNCHANGED <<system_message, user_input, response, before, sent>>

\* the end of a body that stores an assistant message only if there is text
EndOfBodySkipsEmpty ==
    /\ pc = "stream"
    /\ pos = Len(response.body)
    /\ conn' = "released"
    /\ messages' = (IF assistant_message = "" THEN messages
                    ELSE Append(messages, Message("assistant", assistant_message)))
    /\ returned' = [how |-> "return", value |-> assistant_message]
    /\ pc' = "idle"
    /\ UNCHANGED <<system_message, user_input, response, pos, assistant_message,
                   before, sent, printed>>

\* lines 82, 111-116: the body is read to its end: urllib3 releases the connection
EndOfBody ==
    /\ pc = "stream"
    /\ pos = Len(response.body)
    /\ conn' = "released"
    /\ messages' = Append(messages, Message("assistant", assistant_message))
    /\ returned' = [how |-> "return", value |-> assistant_message]
    /\ pc' = "idle"
    /\ UNCHANGED <<system_message, user_input, response, pos, assistant_message,
                   before, sent, printed>>

\* a failed read that keeps the text received so far as the answer
ReadFailsKeepsPartial ==
    /\ pc = "stream"
    /\ conn' = "released"
    /\ messages' = Append(messages, Message("assistant", assistant_message))
    /\ returned' = [how |-> "RequestException", value |-> assistant_message]
    /\ pc' = "idle"
    /\ UNCHANGED <<system_message, user_input, response, pos, assistant_message,
                   before, sent, printed>>

\* line 82: the transport fails while iter_lines reads; urllib3 closes the connection
ReadFails ==
    /\ pc = "stream"
    /\ conn' = "released"
    /\ Catch(Exc("ChunkedEncodingError", "connection broken"))
    /\ UNCHANGED <<system_message, user_input, response, pos, assistant_message,
                   before, sent, printed>>

\* lines 175-180: KeyboardInterrupt during chat: no except clause of chat
\* catches it, main prints and leaves its loop
KeyboardInterrupt ==
    /\ pc \in {"post", "stream"}
    /\ returned' = [how |-> "KeyboardInterrupt", value |-> ""]
    /\ pc' = "exited"
    /\ UNCHANGED <<messages, system_message, user_input, response, pos,
                   assistant_message, before, sent, printed, conn>>

Next ==
    \/ \E message \in SystemPrompts : set_system_message(message)
    \/ clear_conversation
    \/ \E input \in UserInputs : chat(input)
    \/ PostFails
    \/ PostResponds(SessionBodies)
    \/ NextLine
    \/ EndOfBody
    \/ ReadFails
    \/ KeyboardInterrupt

\* a session of up to MaxTurns turns, the responses drawn from SessionBodies
Spec == Init /\ [][Next]_vars

StreamNext ==
    \/ messages = <<>> /\ chat("hello")
    \/ PostFails
    \/ PostResponds(Bodies)
    \/ NextLine
    \/ EndOfBody
    \/ ReadFails
    \/ KeyboardInterrupt

\* exchanges on an empty history, the responses drawn from every body of at
\* most MaxLines lines
StreamSpec == Init /\ [][StreamNext]_vars

\* lines 32-34: clear_conversation called by another thread while chat runs
ConcurrentClear ==
    /\ pc \in {"post", "stream"}
    /\ messages' = <<>>
    /\ UNCHANGED <<system_message, pc, call_vars>>

ConcurrentNext == Next \/ ConcurrentClear

\* a session in which a second thread may clear the conversation at any moment
ConcurrentSpec == Init /\ [][ConcurrentNext]_vars

(***************************************************************************)
(* The properties.                                                         *)
(***************************************************************************)
\* the except clauses of chat
FailureClauses == {"Timeout", "RequestException", "Exception"}

\* a step in which chat returns to its caller
Returns == pc # "idle" /\ pc' = "idle"

RECURSIVE Concat(_)
Concat(fragments) ==
    IF fragments = <<>> THEN "" ELSE Head(fragments) \o Concat(Tail(fragments))

SystemEntries(list) == {i \in 1..Len(list) : list[i].role = "system"}

\* C1: whenever chat returns through one of its except clauses (a timeout, a
\* request exception, any other Exception), history is then exactly the
\* history the call found: same length, same entries.
C1_RollbackExact ==
    [][(Returns /\ returned'.how \in FailureClauses) => messages' = before]_vars

\* a call on a history of one turn failed in the loop, after a fragment was printed
C1_Witness ==
    /\ pc = "idle"
    /\ returned.how = "Exception"
    /\ printed # <<>>
    /\ Len(before) = 2
    /\ messages = before

\* C2: whenever chat returns normally, the fragments printed during the
\* exchange, concatenated in the order they were printed, are the value
\* returned and the content of the assistant message, the last of history.
C2_FragmentsAreTheMessage ==
    [][(Returns /\ returned'.how = "return") =>
          /\ Concat(printed') = returned'.value
          /\ messages' # <<>>
          /\ messages'[Len(messages')] = Message("assistant", Concat(printed'))]_vars

\* an exchange that printed two different fragments returned
C2_Witness ==
    /\ pc = "idle"
    /\ returned.how = "return"
    /\ Len(printed) = 2
    /\ printed[1] # printed[2]
    /\ messages # <<>>
    /\ messages[Len(messages)].content = "AB"

\* C3: no entry of history has the role system, in any reachable state.
C3_NoSystemInHistory == SystemEntries(messages) = {}

\* two turns are in history, one of them in progress, the system prompt was changed
C3_Witness ==
    /\ Len(messages) = 3
    /\ pc = "stream"
    /\ system_message # "You are a helpful assistant."
    /\ returned.how = "none"

\* C4: the messages of every request are the system entry holding the
\* current system prompt, then the history the call found, then the user
\* message of this call; the system entry is the only one and the first.
C4_RequestMessages ==
    pc \in {"post", "stream"} =>
        /\ sent = <<Message("system", system_message)>> \o before
                    \o <<Message("user", user_input)>>
        /\ SystemEntries(sent) = {1}

\* a request made on a history of one turn, with a changed system prompt
C4_Witness ==
    /\ pc = "post"
    /\ Len(before) = 2
    /\ sent[1].content = "Be brief."
    /\ Len(sent) = 4


(***************************************************************************)
(* The lines of a stream, described without the decoder.                   *)
(***************************************************************************)
\* a line that starts with the prefix "data: "
IsDataLine(line) == line.utf8 /\ StartsWith(line.bytes, "data: ")

\* what follows the prefix
Payload(line) == SubSeq(line.bytes, 7, Len(line.bytes))

\* a parsed value holds one of the constants NaN, Infinity, -Infinity
RECURSIVE HasConstant(_)
HasConstant(v) ==
    \/ v.t = "float"
    \/ v.t = "list" /\ \E j \in 1..Len(v.l) : HasConstant(v.l[j])
    \/ v.t = "dict" /\ \E j \in 1..Len(v.l) : HasConstant(v.l[j].v)

\* a text of the JSON grammar (RFC 8259), which has no such constants
IsJson(txt) == JsonLoads(txt).ok /\ ~HasConstant(JsonLoads(txt).v)

\* the payload is JSON with choices[0].delta.content, a string
CarriesContent(line) ==
    /\ IsDataLine(line)
    /\ IsJson(Payload(line))
    /\ LET v == JsonLoads(Payload(line)).v IN
       /\ v.t = "dict" /\ HasKey(v, "choices")
       /\ LET c == DictGet(v, "choices") IN
          /\ c.t = "list" /\ c.l # <<>>
          /\ c.l[1].t = "dict" /\ HasKey(c.l[1], "delta")
          /\ LET d == DictGet(c.l[1], "delta") IN
             /\ d.t = "dict" /\ HasKey(d, "content")
             /\ DictGet(d, "content").t = "str"

ContentOf(line) ==
    DictGet(DictGet(DictGet(JsonLoads(Payload(line)).v, "choices").l[1], "delta"),
            "content").s

\* the number of lines before the first data: [DONE] line of a body
BeforeDone(body) ==
    IF \E i \in 1..Len(body) : body[i] = DoneLine
    THEN (CHOOSE i \in 1..Len(body) :
             body[i] = DoneLine /\ \A j \in 1..(i - 1) : body[j] # DoneLine) - 1
    ELSE Len(body)

\* the contents carried by the first n lines of a body, in order
RECURSIVE ContentsOf(_, _)
ContentsOf(body, n) ==
    IF n = 0 THEN <<>>
    ELSE ContentsOf(body, n - 1)
         \o (IF CarriesContent(body[n]) THEN <<ContentOf(body[n])>> ELSE <<>>)

\* the reference result of decoding a body
ReferenceFragments(body) == ContentsOf(body, BeforeDone(body))

\* a step in which the loop of chat takes the next line of the body
Reads(line) == pc = "stream" /\ pos' = pos + 1 /\ response.body[pos'] = line

\* a step of the loop that only moves on to the next line
OnlyMovesOn ==
    /\ pc' = "stream"
    /\ printed' = printed
    /\ assistant_message' = assistant_message
    /\ messages' = messages
    /\ returned' = returned

\* C5: the step that reads the line data: [DONE] prints nothing and leaves
\* the loop: chat returns what it had accumulated; in every state, a
\* data: [DONE] line among the lines read is the last line read, and the
\* loop is over.
C5_DoneEndsTheLoop ==
    [][/\ Reads(DoneLine) =>
            /\ printed' = printed
            /\ pc' = "idle"
            /\ returned' = [how |-> "return", value |-> assistant_message]
            /\ messages' = Append(messages, Message("assistant", assistant_message))
       /\ \A i \in 1..pos' :
            response'.body[i] = DoneLine => i = pos' /\ pc' # "stream"]_vars

\* a body with a content line after data: [DONE]: the line before it is the result
C5_Witness ==
    /\ pc = "idle"
    /\ response.body = <<ContentLine("A"), DoneLine, ContentLine("B")>>
    /\ pos = 2
    /\ printed = <<"A">>
    /\ returned = [how |-> "return", value |-> "A"]

\* C6: a data line whose payload is JSON of any shape other than
\* choices[0].delta.content being a string prints nothing and raises nothing:
\* the loop moves on to the next line, history and the result untouched.
C6_OtherShapesAreSkipped ==
    [][\A line \in Lines :
          (/\ Reads(line)
           /\ IsDataLine(line)
           /\ IsJson(Payload(line))
           /\ ~CarriesContent(line)) => OnlyMovesOn]_vars

\* C7: a data line whose payload is neither [DONE] nor JSON prints nothing
\* and raises nothing: the loop moves on to the next line, history and the
\* result untouched.
C7_NotJsonIsSkipped ==
    [][\A line \in Lines :
          (/\ Reads(line)
           /\ IsDataLine(line)
           /\ Payload(line) # "[DONE]"
           /\ ~IsJson(Payload(line))) => OnlyMovesOn]_vars

\* C8: when chat has returned normally, what it returned is the
\* concatenation, in order, of the contents carried by the lines before the
\* first data: [DONE] line of the body (all of them if there is none), and
\* the fragments printed are these contents, one for each such line.
C8_ReferenceResult ==
    returned.how = "return" =>
        /\ printed = ReferenceFragments(response.body)
        /\ returned.value = Concat(ReferenceFragments(response.body))
        /\ assistant_message = returned.value

\* content, an ignored line, content, then the end of the body
C8_Witness ==
    /\ pc = "idle"
    /\ returned = [how |-> "return", value |-> "AB"]
    /\ response.body = <<ContentLine("A"), BlankLine, ContentLine("B")>>

\* C9: when chat has returned, the connection of the response it opened is
\* not open.
C9_ResponseReleased == pc = "idle" => conn # "open"

\* C10: after a KeyboardInterrupt has ended a call of chat in its loop over
\* the lines of the response, history is the history the call found.
C10_InterruptRollsBack ==
    (returned.how = "KeyboardInterrupt" /\ response # NoResponse) => messages = before

(***************************************************************************)
(* Failures of an exchange.                                                *)
(***************************************************************************)
\* an exchange is in flight
InFlight == {"post", "stream"}

\* a status of the class 2xx
Is2xx(status_code) == 200 <= status_code /\ status_code < 300

\* a step in which requests.post gives a response whose status is not 2xx
NonSuccessStatus ==
    pc = "post" /\ response' # NoResponse /\ ~Is2xx(response'.status_code)

\* a step in which an Exception ends the exchange in flight
ExceptionEnds ==
    /\ pc \in InFlight
    /\ pc' \notin InFlight
    /\ returned'.how \notin {"return", "KeyboardInterrupt"}

\* the strings the except clauses of chat build
IsErrorString(txt) ==
    \/ txt = "Request timed out"
    \/ StartsWith(txt, "Network error: ") /\ Len(txt) > Len("Network error: ")
    \/ StartsWith(txt, "Error: ") /\ Len(txt) > Len("Error: ")

\* the contents of the entries of a list of messages
Contents(list) == {list[i].content : i \in 1..Len(list)}

\* C11: every step in which the exchange fails (requests.post or the read of
\* the body raises an Exception, or the response has a status that is not
\* 2xx) returns from chat through an except clause: the caller gets a string
\* that describes the error, no exception, and no entry of history holds
\* that string.
C11_FailuresAreCaught ==
    [][(NonSuccessStatus \/ ExceptionEnds) =>
          /\ pc' = "idle"
          /\ returned'.how \in FailureClauses
          /\ IsErrorString(returned'.value)
          /\ returned'.value \notin Contents(messages')]_vars

\* C12: a response whose status is not 2xx is never streamed: in the step
\* that receives it, chat returns through the except clause of
\* RequestException with history as the call found it, and as long as it is
\* the response of the last call no line of its body has been read and no
\* fragment printed.
C12_StatusCheckedBeforeStreaming ==
    [][(response' # NoResponse /\ ~Is2xx(response'.status_code)) =>
          /\ pos' = 0
          /\ printed' = <<>>
          /\ pc' # "stream"
          /\ NonSuccessStatus =>
                /\ pc' = "idle"
                /\ returned'.how = "RequestException"
                /\ messages' = before]_vars

(***************************************************************************)
(* The operations between exchanges.                                       *)
(***************************************************************************)
\* a step of clear_conversation or set_system_message
BetweenExchanges == pc = "idle" /\ pc' = "idle"

\* a step in which chat builds its request
BuildsRequest == pc = "idle" /\ pc' = "post"

\* C13: a step between exchanges that changes history (clear_conversation)
\* leaves it empty and leaves the system prompt as it was, and the request
\* that chat would build next, for any input, is the system entry with
\* that prompt then the user message; every request that chat builds on an
\* empty history is these two entries.
C13_ClearEmptiesHistoryOnly ==
    [][/\ (BetweenExchanges /\ messages' # messages) =>
             /\ messages' = <<>>
             /\ system_message' = system_message
             /\ \A input \in UserInputs :
                   (full_messages(AppendUser(messages, input)))'
                      = <<Message("system", system_message), Message("user", input)>>
       /\ (BuildsRequest /\ messages = <<>>) =>
             sent' = <<Message("system", system_message),
                       Message("user", user_input')>>]_vars

\* history was cleared after a successful exchange made with a changed prompt
C13_Witness ==
    /\ pc = "idle"
    /\ messages = <<>>
    /\ returned.how = "return"
    /\ Len(sent) = 4
    /\ sent[1].content = "Be brief."
    /\ system_message = "Be brief."

\* C14: a step between exchanges that changes the system prompt
\* (set_system_message) leaves history and the request already sent as they
\* were, and the request that chat would build next starts with the system
\* entry of the new prompt; every request that chat builds starts with the
\* system entry of the prompt of that moment, and the prompt changes in no
\* other step, so it stays the prompt of the later requests.
C14_PromptOfLaterRequests ==
    [][/\ (BetweenExchanges /\ system_message' # system_message) =>
             /\ messages' = messages
             /\ sent' = sent
             /\ system_message' \in SystemPrompts
             /\ \A input \in UserInputs :
                   (full_messages(AppendUser(messages, input)))'[1]
                      = Message("system", system_message')
       /\ BuildsRequest => sent'[1] = Message("system", system_message)
       /\ system_message' # system_message => BetweenExchanges]_vars

\* the prompt was changed after a request was sent with the first prompt
C14_Witness ==
    /\ pc = "idle"
    /\ system_message = "Be brief."
    /\ sent # <<>>
    /\ sent[1].content = "You are a helpful assistant."
    /\ Len(messages) = 2

\* C15: when an exchange in flight fails and finds history empty (it was
\* cleared after chat appended the user message), chat still returns through
\* an except clause, no exception leaves it, and history stays empty.
C15_RollbackAfterConcurrentClear ==
    [][(/\ pc \in InFlight
        /\ pc' = "idle"
        /\ returned'.how # "return"
        /\ messages = <<>>) =>
          /\ returned'.how \in FailureClauses
          /\ messages' = <<>>]_vars

(***************************************************************************)
(* The shape of history.                                                   *)
(***************************************************************************)
\* a step of a call of chat
StepOfChat == pc \in InFlight \/ pc' \in InFlight

\* the entries of history stay where they are, new ones come after them
KeepsEntries ==
    /\ Len(messages') >= Len(messages)
    /\ SubSeq(messages', 1, Len(messages)) = messages

\* the call removes the user message it appended, the last entry
RemovesOwnEntry ==
    /\ Len(messages) = Len(before) + 1
    /\ messages[Len(messages)] = Message("user", user_input)
    /\ messages' = before

\* C16: every step of a call of chat keeps the entries of history with their
\* role, content and position, appending at the end, or removes the user
\* message this call appended; during the call and when it ends, the history
\* the call found is the beginning of history; a step that removes or
\* changes another entry is a step between exchanges (clear_conversation).
C16_EarlierEntriesKept ==
    [][/\ StepOfChat =>
             /\ KeepsEntries \/ RemovesOwnEntry
             /\ Len(messages') >= Len(before')
             /\ SubSeq(messages', 1, Len(before')) = before'
       /\ ~(KeepsEntries \/ RemovesOwnEntry) =>
             BetweenExchanges /\ messages' = <<>>]_vars

\* the second exchange of a session succeeded: the first turn is where it was
C16_Witness ==
    /\ pc = "idle"
    /\ returned.how = "return"
    /\ Len(before) = 2
    /\ Len(messages) = 4
    /\ SubSeq(messages, 1, 2) = before
    /\ messages[1].content # messages[3].content

\* user, assistant, user, assistant, ...: turns that are complete
Alternates(list) ==
    /\ Len(list) % 2 = 0
    /\ \A i \in 1..Len(list) :
          list[i].role = (IF i % 2 = 1 THEN "user" ELSE "assistant")

\* C17: whenever no call of chat is in progress (before the first call and
\* after a call has returned, whatever chats, clears and changes of the
\* prompt came before), history has even length and its entries alternate
\* user, assistant, starting with user.
C17_OnlyCompletedTurns == pc = "idle" => Alternates(messages)

\* after a successful exchange and a change of the prompt, an exchange failed
C17_Witness ==
    /\ pc = "idle"
    /\ returned.how = "Timeout"
    /\ Len(messages) = 2
    /\ system_message = "Be brief."
    /\ sent[1].content = "Be brief."

\* C18: whenever chat returns normally, history is the history the call
\* found, then the user message of the call, then one assistant message
\* holding the value returned: two entries more; when nothing was printed
\* during the exchange that value and the content stored are the empty string.
C18_TwoEntriesPerExchange ==
    [][(Returns /\ returned'.how = "return") =>
          /\ messages' = before \o <<Message("user", user_input),
                                     Message("assistant", returned'.value)>>
          /\ Len(messages') = Len(before) + 2
          /\ printed' = <<>> =>
                /\ returned'.value = ""
                /\ messages'[Len(messages')] = Message("assistant", "")]_vars

\* an ignored line, then data: [DONE] before any content: the empty answer is stored
C18_Witness ==
    /\ pc = "idle"
    /\ returned = [how |-> "return", value |-> ""]
    /\ response = [status_code |-> 200,
                   body |-> <<CommentLine, DoneLine, ContentLine("A")>>]
    /\ messages = <<Message("user", "hello"), Message("assistant", "")>>

\* C19: whenever chat returns through an except clause after fragments were
\* printed, history is the history the call found (neither the user message
\* nor the text received is stored) and the value returned is the error
\* string of the clause, not the text received.
C19_PartialAnswerDropped ==
    [][(Returns /\ returned'.how \in FailureClauses /\ printed' # <<>>) =>
          /\ messages' = before
          /\ IsErrorString(returned'.value)
          /\ returned'.value # assistant_message'
          /\ returned'.value # Concat(printed')]_vars

\* the second exchange of a session lost its connection after the fragment A
C19_Witness ==
    /\ pc = "idle"
    /\ returned = [how |-> "RequestException",
                   value |-> "Network error: connection broken"]
    /\ printed = <<"A">>
    /\ assistant_message = "A"
    /\ Len(before) = 2
    /\ messages = before

====
